---- MODULE Spec2Model ----
(***************************************************************************)
(* Kaleidoscope front end (src/main.cpp): the lexer gettok, the recursive  *)
(* descent / operator precedence parser and the driver loop MainLoop.      *)
(*                                                                         *)
(* Characters are their ASCII codes, as in the source, where LastChar and  *)
(* CurTok are ints: EOF and tok_eof are both -1, the other special tokens  *)
(* are -2..-5 and every other token is the code of its character.          *)
(***************************************************************************)
EXTENDS Integers, Sequences, FiniteSets, TLC

VARIABLES
    input0,         \* the whole character stream on stdin (never changes)
    input,          \* stdin: the characters getchar() has not read yet
    LastChar,       \* gettok's static lookahead character
    IdentifierStr,  \* filled in if tok_identifier
    NumVal,         \* filled in if tok_number
    CurTok,         \* the parser's current token
    pc,             \* where main() is: start, loop, done, aborted; lex for the lexer alone
    last,           \* the operation that ran last
    result,         \* what the last top-level parse entry point returned
    errs,           \* the LogError messages of the last operation
    toks,           \* every token gettok has returned so far, with its payload
    before,         \* the lexer's state when the last operation began
    given,          \* how input0 was built (the tree it was rendered from, if any)
    alt             \* a second lexer run, for the two-run properties

vars == <<input0, input, LastChar, IdentifierStr, NumVal, CurTok, pc, last,
          result, errs, toks, before, given, alt>>

----------------------------------------------------------------------------
(* Characters *)

Ascii ==
    (" " :> 32) @@ ("#" :> 35) @@ ("(" :> 40) @@ (")" :> 41) @@ ("*" :> 42) @@
    ("+" :> 43) @@ ("," :> 44) @@ ("-" :> 45) @@ ("." :> 46) @@ ("/" :> 47) @@
    ("0" :> 48) @@ ("1" :> 49) @@ ("2" :> 50) @@ ("3" :> 51) @@ ("5" :> 53) @@
    (";" :> 59) @@ ("<" :> 60) @@ ("!" :> 33) @@
    ("a" :> 97) @@ ("d" :> 100) @@ ("e" :> 101) @@ ("f" :> 102) @@
    ("g" :> 103) @@ ("n" :> 110) @@ ("o" :> 111) @@ ("r" :> 114) @@
    ("t" :> 116) @@ ("x" :> 120) @@ ("y" :> 121) @@
    ("\n" :> 10) @@ ("\r" :> 13) @@ ("\t" :> 9)

\* The character codes of a sequence of one-character strings.
Str(cs) ==
    [i \in 1..Len(cs) |-> Ascii[cs[i]]]

Ord(c) ==
    Ascii[c]

EOF ==
    -1

isspace(c) ==
    c \in {32, 9, 10, 11, 12, 13}

isdigit(c) ==
    c \in 48..57

isalpha(c) ==
    c \in (65..90) \cup (97..122)

isalnum(c) ==
    isalpha(c) \/ isdigit(c)

isascii(c) ==
    c \in 0..127

----------------------------------------------------------------------------
(* Tokens *)

tok_eof ==
    -1

tok_def ==
    -2

tok_extern ==
    -3

tok_identifier ==
    -4

tok_number ==
    -5

----------------------------------------------------------------------------
(* std::stod on a run of digits and dots *)

\* A double with a short decimal expansion: mant / 10^frac, with no trailing
\* zero in the fraction, so that equal values are equal records.
RECURSIVE Normalize(_, _)
Normalize(mant, frac) ==
    IF frac > 0 /\ mant % 10 = 0
    THEN Normalize(mant \div 10, frac - 1)
    ELSE [mant |-> mant, frac |-> frac]

\* The length of the longest prefix of digits of s from position i on.
RECURSIVE DigitRun(_, _)
DigitRun(s, i) ==
    IF i <= Len(s) /\ isdigit(s[i]) THEN 1 + DigitRun(s, i + 1) ELSE 0

RECURSIVE ToInt(_)
ToInt(ds) ==
    IF ds = <<>> THEN 0
    ELSE 10 * ToInt(SubSeq(ds, 1, Len(ds) - 1)) + (ds[Len(ds)] - Ord("0"))

\* stod converts the longest prefix that is a number, digits [. digits] with
\* at least one digit, and throws std::invalid_argument when there is none.
stodAt(NumStr, ni, nf) ==
    IF ni + nf = 0
    THEN [threw |-> TRUE, val |-> Normalize(0, 0)]
    ELSE [threw |-> FALSE,
          val |-> Normalize(ToInt(SubSeq(NumStr, 1, ni) \o
                                  SubSeq(NumStr, ni + 2, ni + 1 + nf)), nf)]

stodFrac(NumStr, ni) ==
    stodAt(NumStr, ni,
           IF ni + 1 <= Len(NumStr) /\ NumStr[ni + 1] = Ord(".")
           THEN DigitRun(NumStr, ni + 2) ELSE 0)

stod(NumStr) ==
    stodFrac(NumStr, DigitRun(NumStr, 1))

----------------------------------------------------------------------------
(* The lexer.  A lexer state is a record of the statics gettok reads and    *)
(* writes, LastChar, IdentifierStr and NumVal, and stdin (input); threw     *)
(* says that an exception left gettok and nothing caught it.                *)

\* Let v be the value of an expression in what follows, K.
Let(v, K(_)) ==
    CHOOSE y \in {K(x) : x \in {v}} : TRUE

\* LastChar = getchar()
ReadChar(s) ==
    IF s.input = <<>>
    THEN [s EXCEPT !.LastChar = EOF]
    ELSE [s EXCEPT !.LastChar = Head(s.input), !.input = Tail(s.input)]

RECURSIVE SkipSpace(_)
SkipSpace(s) ==
    IF isspace(s.LastChar) THEN SkipSpace(ReadChar(s)) ELSE s

\* ReadIdentifier with isalpha for isalnum: a digit ends the identifier.
RECURSIVE ReadIdentifier_Alpha(_)
ReadIdentifier_Alpha(s) ==
    Let(ReadChar(s), LAMBDA s1 :
        IF isalpha(s1.LastChar)
        THEN ReadIdentifier_Alpha([s1 EXCEPT !.IdentifierStr = Append(@, s1.LastChar)])
        ELSE s1)

\* while (isalnum((LastChar = getchar()))) IdentifierStr += LastChar;
RECURSIVE ReadIdentifier(_)
ReadIdentifier(s) ==
    Let(ReadChar(s), LAMBDA s1 :
        IF isalnum(s1.LastChar)
        THEN ReadIdentifier([s1 EXCEPT !.IdentifierStr = Append(@, s1.LastChar)])
        ELSE s1)

\* do { NumStr += LastChar; LastChar = getchar(); } while (digit or '.');
RECURSIVE ReadNumber(_, _)
ReadNumber(s, NumStr) ==
    Let(ReadChar(s), LAMBDA s1 :
        IF isdigit(s1.LastChar) \/ s1.LastChar = Ord(".")
        THEN ReadNumber(s1, Append(NumStr, s.LastChar))
        ELSE [st |-> s1, NumStr |-> Append(NumStr, s.LastChar)])

\* SkipComment that a carriage return does not end.
RECURSIVE SkipComment_NoCR(_)
SkipComment_NoCR(s) ==
    Let(ReadChar(s), LAMBDA s1 :
        IF s1.LastChar # EOF /\ s1.LastChar # Ord("\n")
        THEN SkipComment_NoCR(s1)
        ELSE s1)

\* do { LastChar = getchar(); } while (not EOF, '\n' or '\r');
RECURSIVE SkipComment(_)
SkipComment(s) ==
    Let(ReadChar(s), LAMBDA s1 :
        IF s1.LastChar # EOF /\ s1.LastChar # Ord("\n") /\ s1.LastChar # Ord("\r")
        THEN SkipComment(s1)
        ELSE s1)

\* StartIdentifier with += for =: the identifier of the call before stays.
StartIdentifier_Append(s) ==
    [s EXCEPT !.IdentifierStr = Append(@, s.LastChar)]

\* The first character of an identifier: IdentifierStr = LastChar
StartIdentifier(s) ==
    [s EXCEPT !.IdentifierStr = <<s.LastChar>>]

\* The identifier branch of gettok.
LexIdentifier(s) ==
    Let(ReadIdentifier(StartIdentifier(s)), LAMBDA s1 :
        IF s1.IdentifierStr = Str(<<"d", "e", "f">>)
        THEN [st |-> s1, tok |-> tok_def]
        ELSE IF s1.IdentifierStr = Str(<<"e", "x", "t", "e", "r", "n">>)
        THEN [st |-> s1, tok |-> tok_extern]
        ELSE [st |-> s1, tok |-> tok_identifier])

\* NumVal = std::stod(NumStr, 0): an exception nothing catches, or the value.
Convert(s, d) ==
    IF d.threw
    THEN [st |-> [s EXCEPT !.threw = TRUE], tok |-> 0]
    ELSE [st |-> [s EXCEPT !.NumVal = d.val], tok |-> tok_number]

\* The number branch of gettok.
LexNumber(s) ==
    Let(ReadNumber(s, <<>>), LAMBDA r : Convert(r.st, stod(r.NumStr)))

\* The last branch of gettok: the character itself.
LexChar(s) ==
    [st |-> ReadChar(s), tok |-> s.LastChar]

\* gettok: the next token from standard input.
RECURSIVE gettok(_)
gettok(s) ==
    Let(SkipSpace(s), LAMBDA s0 :
        IF isalpha(s0.LastChar) THEN LexIdentifier(s0)
        ELSE IF isdigit(s0.LastChar) \/ s0.LastChar = Ord(".") THEN LexNumber(s0)
        ELSE IF s0.LastChar = Ord("#")
        THEN Let(SkipComment(s0), LAMBDA s1 :
                 IF s1.LastChar # EOF THEN gettok(s1)
                 ELSE [st |-> s1, tok |-> tok_eof])
        ELSE IF s0.LastChar = EOF THEN [st |-> s0, tok |-> tok_eof]
        ELSE LexChar(s0))

\* A token as the caller sees it: the tag and the payload that is valid for it.
NoNum ==
    [mant |-> -1, frac |-> 0]

Token(tok, s) ==
    [tag |-> tok,
     id |-> IF tok = tok_identifier THEN s.IdentifierStr ELSE <<>>,
     num |-> IF tok = tok_number THEN s.NumVal ELSE NoNum]

----------------------------------------------------------------------------
(* The AST *)

Null ==
    [kind |-> "null"]

NumberExprAST(Val) ==
    [kind |-> "Number", Val |-> Val]

VariableExprAST(Name) ==
    [kind |-> "Variable", Name |-> Name]

BinaryExprAST(Op, LHS, RHS) ==
    [kind |-> "Binary", Op |-> Op, LHS |-> LHS, RHS |-> RHS]

CallExprAST(Callee, Args) ==
    [kind |-> "Call", Callee |-> Callee, Args |-> Args]

PrototypeAST(Name, Args) ==
    [kind |-> "Prototype", Name |-> Name, Args |-> Args]

FunctionAST(Proto, Body) ==
    [kind |-> "Function", Proto |-> Proto, Body |-> Body]

----------------------------------------------------------------------------
(* The parser.  A parser state is a lexer state with CurTok, the messages   *)
(* LogError has written (errs) and the tokens gettok has returned (toks).   *)
(* A parse function returns the state it leaves and the node it returns,    *)
(* Null for nullptr.  Once an exception is in flight (threw) every caller   *)
(* is left at once: nothing on the way to main() catches it.                *)

Ret(s, node) ==
    [st |-> s, node |-> node]

\* getNextToken: CurTok = gettok()
getNextToken(s) ==
    Let(gettok(s), LAMBDA g :
        IF g.st.threw THEN g.st
        ELSE [g.st EXCEPT !.CurTok = g.tok,
                          !.toks = Append(@, Token(g.tok, g.st))])

LogError(s, Str_) ==
    Ret([s EXCEPT !.errs = Append(@, Str_)], Null)

LogErrorP(s, Str_) ==
    LogError(s, Str_)

\* return node, once the last getNextToken of a function has left state s.
Return(s, node) ==
    IF s.threw THEN Ret(s, Null) ELSE Ret(s, node)

ParseNumberExpr(s) ==
    Return(getNextToken(s), NumberExprAST(s.NumVal))

BinopPrecedence(c) ==
    CASE c = Ord("<") -> 10
      [] c = Ord("+") -> 20
      [] c = Ord("-") -> 20
      [] c = Ord("*") -> 40
      [] c = Ord("/") -> 40
      [] OTHER -> 0

GetTokPrecedence(tok) ==
    IF ~isascii(tok) THEN -1
    ELSE IF BinopPrecedence(tok) <= 0 THEN -1
    ELSE BinopPrecedence(tok)

RECURSIVE ParseExpression(_)
RECURSIVE ParseBinOpRHS(_, _, _)
RECURSIVE ParsePrimary(_)
RECURSIVE ParseParenExpr(_)
RECURSIVE ParseIdentifierExpr(_)
RECURSIVE ParseCallArgs(_, _)

\* ParseParenExpr without the test for ')': whatever follows the expression
\* is eaten as if it closed the parenthesis.
ParseParenExpr_AnyClose(s) ==
    Let(getNextToken(s), LAMBDA s1 :
        IF s1.threw THEN Ret(s1, Null)
        ELSE Let(ParseExpression(s1), LAMBDA V :
            IF V.node = Null THEN Ret(V.st, Null)
            ELSE Return(getNextToken(V.st), V.node)))

ParseParenExpr(s) ==
    Let(getNextToken(s), LAMBDA s1 :
        IF s1.threw THEN Ret(s1, Null)
        ELSE Let(ParseExpression(s1), LAMBDA V :
            IF V.node = Null THEN Ret(V.st, Null)
            ELSE IF V.st.CurTok # Ord(")") THEN LogError(V.st, "expected ')'")
            ELSE Return(getNextToken(V.st), V.node)))

\* PushBack at the wrong end: the arguments come out in reverse.
PushFront(Args, Arg) ==
    <<Arg>> \o Args

\* Args.push_back(std::move(Arg))
PushBack(Args, Arg) ==
    Append(Args, Arg)

\* The while(1) loop of ParseIdentifierExpr: Args so far, one more argument
\* to parse.  The node is the argument vector, or Null.
ParseCallArgs(s, Args) ==
    Let(ParseExpression(s), LAMBDA Arg :
        IF Arg.node = Null THEN Ret(Arg.st, Null)
        ELSE IF Arg.st.CurTok = Ord(")")
        THEN Ret(Arg.st, [kind |-> "vec", vec |-> PushBack(Args, Arg.node)])
        ELSE IF Arg.st.CurTok # Ord(",")
        THEN LogError(Arg.st, "Expected ')' or ',' in argument list")
        ELSE Let(getNextToken(Arg.st), LAMBDA s1 :
            IF s1.threw THEN Ret(s1, Null)
            ELSE ParseCallArgs(s1, PushBack(Args, Arg.node))))

ParseIdentifierExpr(s) ==
    Let(getNextToken(s), LAMBDA s1 :
        IF s1.threw THEN Ret(s1, Null)
        ELSE IF s1.CurTok # Ord("(") THEN Ret(s1, VariableExprAST(s.IdentifierStr))
        ELSE Let(getNextToken(s1), LAMBDA s2 :
            IF s2.threw THEN Ret(s2, Null)
            ELSE Let(IF s2.CurTok # Ord(")")
                     THEN ParseCallArgs(s2, <<>>)
                     ELSE Ret(s2, [kind |-> "vec", vec |-> <<>>]), LAMBDA a :
                IF a.node = Null THEN Ret(a.st, Null)
                ELSE Return(getNextToken(a.st),
                            CallExprAST(s.IdentifierStr, a.node.vec)))))

ParsePrimary(s) ==
    IF s.CurTok = tok_identifier THEN ParseIdentifierExpr(s)
    ELSE IF s.CurTok = tok_number THEN ParseNumberExpr(s)
    ELSE IF s.CurTok = Ord("(") THEN ParseParenExpr(s)
    ELSE LogError(s, "unknown token when expecting an expression")

ParseExpression(s) ==
    Let(ParsePrimary(s), LAMBDA LHS :
        IF LHS.node = Null THEN Ret(LHS.st, Null)
        ELSE ParseBinOpRHS(0, LHS.node, LHS.st))

\* TakesRHS with > for <: a tighter operator no longer takes RHS.
TakesRHS_Flipped(TokPrec, NextPrec) ==
    TokPrec > NextPrec

\* if (TokPrec < NextPrec): the pending operator takes RHS as its LHS.
TakesRHS(TokPrec, NextPrec) ==
    TokPrec < NextPrec

ParseBinOpRHS(ExprPrec, LHS, s) ==
    Let(GetTokPrecedence(s.CurTok), LAMBDA TokPrec :
        IF TokPrec < ExprPrec THEN Ret(s, LHS)
        ELSE Let(getNextToken(s), LAMBDA s1 :
            IF s1.threw THEN Ret(s1, Null)
            ELSE Let(ParsePrimary(s1), LAMBDA RHS :
                IF RHS.node = Null THEN Ret(RHS.st, Null)
                ELSE Let(IF TakesRHS(TokPrec, GetTokPrecedence(RHS.st.CurTok))
                         THEN ParseBinOpRHS(TokPrec + 1, RHS.node, RHS.st)
                         ELSE RHS, LAMBDA RHS2 :
                    IF RHS2.node = Null THEN Ret(RHS2.st, Null)
                    ELSE ParseBinOpRHS(ExprPrec,
                             BinaryExprAST(s.CurTok, LHS, RHS2.node), RHS2.st)))))

\* ReadArgNames that pushes the identifier read before the call of
\* getNextToken: the function's name becomes its first parameter.
RECURSIVE ReadArgNames_Stale(_, _)
ReadArgNames_Stale(s, ArgNames) ==
    Let(getNextToken(s), LAMBDA s1 :
        IF ~s1.threw /\ s1.CurTok = tok_identifier
        THEN ReadArgNames_Stale(s1, Append(ArgNames, s.IdentifierStr))
        ELSE [st |-> s1, ArgNames |-> ArgNames])

\* while (getNextToken() == tok_identifier) ArgNames.push_back(IdentifierStr);
RECURSIVE ReadArgNames(_, _)
ReadArgNames(s, ArgNames) ==
    Let(getNextToken(s), LAMBDA s1 :
        IF ~s1.threw /\ s1.CurTok = tok_identifier
        THEN ReadArgNames(s1, Append(ArgNames, s1.IdentifierStr))
        ELSE [st |-> s1, ArgNames |-> ArgNames])

ParsePrototype(s) ==
    IF s.CurTok # tok_identifier
    THEN LogErrorP(s, "Expected function name in prototype")
    ELSE Let(getNextToken(s), LAMBDA s1 :
        IF s1.threw THEN Ret(s1, Null)
        ELSE IF s1.CurTok # Ord("(")
        THEN LogErrorP(s1, "Expected '(' in prototype")
        ELSE Let(ReadArgNames(s1, <<>>), LAMBDA a :
            IF a.st.threw THEN Ret(a.st, Null)
            ELSE IF a.st.CurTok # Ord(")")
            THEN LogErrorP(a.st, "Expected ')' in prototype")
            ELSE Return(getNextToken(a.st),
                        PrototypeAST(s.IdentifierStr, a.ArgNames))))

ParseDefinition(s) ==
    Let(getNextToken(s), LAMBDA s1 :
        IF s1.threw THEN Ret(s1, Null)
        ELSE Let(ParsePrototype(s1), LAMBDA Proto :
            IF Proto.node = Null THEN Ret(Proto.st, Null)
            ELSE Let(ParseExpression(Proto.st), LAMBDA E :
                IF E.node # Null
                THEN Ret(E.st, FunctionAST(Proto.node, E.node))
                ELSE Ret(E.st, Null))))

ParseExtern(s) ==
    Let(getNextToken(s), LAMBDA s1 :
        IF s1.threw THEN Ret(s1, Null) ELSE ParsePrototype(s1))

ParseTopLevelExpr(s) ==
    Let(ParseExpression(s), LAMBDA E :
        IF E.node # Null
        THEN Ret(E.st, FunctionAST(PrototypeAST(<<>>, <<>>), E.node))
        ELSE Ret(E.st, Null))

----------------------------------------------------------------------------
(* Input streams.  An input is its text and how it was built: from          *)
(* fragments, or rendered from a tree (ast), which is then the tree the     *)
(* parser is expected to give back.                                         *)

MaxFrags ==
    4

MaxFlatOps ==
    3

MaxTreeOps ==
    2

MaxArgs ==
    3

MaxParams ==
    2

RECURSIVE Concat(_)
Concat(ss) ==
    IF ss = <<>> THEN <<>> ELSE Head(ss) \o Concat(Tail(ss))

SeqsUpTo(S, n) ==
    UNION {[1..k -> S] : k \in 0..n}

Src(kind, text, ast, next) ==
    [kind |-> kind, text |-> text, ast |-> ast, next |-> next]

Fragments ==
    {Str(<<"1">>), Str(<<"x", " ">>), Str(<<"(">>), Str(<<")">>), Str(<<",">>),
     Str(<<"+">>), Str(<<"*">>), Str(<<"d", "e", "f", " ">>),
     Str(<<"e", "x", "t", "e", "r", "n", " ">>), Str(<<";">>), Str(<<".">>)}

FragInputs ==
    {Src("frags", Concat(fs), Null, 0) : fs \in SeqsUpTo(Fragments, MaxFrags)}

One ==
    [mant |-> 1, frac |-> 0]

Leaves ==
    {[text |-> Str(<<"1">>), ast |-> NumberExprAST(One)],
     [text |-> Str(<<"x">>), ast |-> VariableExprAST(Str(<<"x">>))]}

Operators ==
    {Ord("<"), Ord("+"), Ord("-"), Ord("*"), Ord("/")}

\* primary (op primary)^k for k <= MaxFlatOps
RECURSIVE FlatTexts(_)
FlatTexts(k) ==
    IF k = 0 THEN {l.text : l \in Leaves}
    ELSE {f \o <<op>> \o l.text : f \in FlatTexts(k - 1), op \in Operators, l \in Leaves}

FlatInputs ==
    {Src("flat", f, Null, 0) : f \in UNION {FlatTexts(k) : k \in 0..MaxFlatOps}}

\* A tree and its fully parenthesised text: an operand that is itself a
\* binary expression is written in parentheses.
Wrap(g) ==
    IF g.ast.kind = "Binary" THEN Str(<<"(">>) \o g.text \o Str(<<")">>) ELSE g.text

RECURSIVE TreesOf(_)
TreesOf(n) ==
    IF n = 0 THEN Leaves
    ELSE UNION {
           {[text |-> Wrap(l) \o <<op>> \o Wrap(r),
             ast |-> BinaryExprAST(op, l.ast, r.ast)] :
                l \in TreesOf(i), r \in TreesOf(n - 1 - i), op \in Operators}
           : i \in 0..(n - 1)}

Trees ==
    UNION {TreesOf(n) : n \in 0..MaxTreeOps}

\* What may follow a complete expression without continuing it, with the
\* token it lexes to.
Tails ==
    {[text |-> <<>>, tok |-> tok_eof],
     [text |-> Str(<<";">>), tok |-> Ord(";")],
     [text |-> Str(<<" ", "1">>), tok |-> tok_number]}

TreeInputs ==
    {Src("tree", g.text \o t.text, g.ast, t.tok) : g \in Trees, t \in Tails}

\* '(' E, and then no ')'
ParenBadInputs ==
    {Src("parenbad", Str(<<"(">>) \o g.text \o t.text, Null, t.tok) :
        g \in Trees, t \in Tails}

ArgSet ==
    Leaves \cup
    {[text |-> Str(<<"1", "+", "x">>),
      ast |-> BinaryExprAST(Ord("+"), NumberExprAST(One), VariableExprAST(Str(<<"x">>)))],
     [text |-> Str(<<"g", "(", "x", ")">>),
      ast |-> CallExprAST(Str(<<"g">>), <<VariableExprAST(Str(<<"x">>))>>)]}

RECURSIVE Join(_)
Join(as) ==
    IF as = <<>> THEN <<>>
    ELSE IF Len(as) = 1 THEN as[1].text
    ELSE as[1].text \o Str(<<",">>) \o Join(Tail(as))

Foo ==
    Str(<<"f", "o", "o">>)

CallInputs ==
    {Src("call", Foo \o Str(<<"(">>) \o Join(as) \o Str(<<")">>) \o t.text,
         CallExprAST(Foo, [i \in 1..Len(as) |-> as[i].ast]), t.tok) :
        as \in SeqsUpTo(ArgSet, MaxArgs), t \in Tails}

\* foo(a1,...,an with n >= 1, and then neither ')' nor ','
CallBadInputs ==
    {Src("callbad", Foo \o Str(<<"(">>) \o Join(as) \o t.text, Null, t.tok) :
        as \in SeqsUpTo(ArgSet, MaxArgs) \ {<<>>}, t \in Tails}

\* def or extern, and what may or may not be a prototype and a body.
ProtoInputs ==
    {Src("proto", kw \o name \o open \o Concat(ps) \o close \o body, Null, 0) :
        kw \in {Str(<<"d", "e", "f", " ">>), Str(<<"e", "x", "t", "e", "r", "n", " ">>)},
        name \in {Foo, Str(<<"1">>), <<>>},
        open \in {Str(<<"(">>), Str(<<" ">>)},
        ps \in SeqsUpTo({Str(<<"x", " ">>), Str(<<"y", " ">>)}, MaxParams),
        close \in {Str(<<")">>), Str(<<",">>), <<>>},
        body \in {<<>>, Str(<<" ", "x", "+", "1">>), Str(<<")">>)}}

\* The inputs the specification names.
Examples ==
    {Src("example", Str(<<"1", "+", "2", "*", "3">>), Null, 0),
     Src("example", Str(<<"1", "-", "2", "-", "3">>), Null, 0),
     Src("example", Str(<<"1", "<", "2", "+", "3">>), Null, 0),
     Src("example", Str(<<"(", "1", "+", "2", ")", "*", "3">>), Null, 0),
     Src("example", Str(<<"f", "o", "o", "(", "1", ",", "2", ",", "3", ")">>), Null, 0),
     Src("example", Str(<<"f", "o", "o", "(", ")">>), Null, 0),
     Src("example", Str(<<"f", "o", "o", "(", "1", ",", "2">>), Null, 0),
     Src("example", Str(<<"d", "e", "f", " ", "f", "o", "o", " ", "1", "+", "1">>), Null, 0),
     Src("example", Str(<<"3", ".", "1", "5">>), Null, 0)}

----------------------------------------------------------------------------
(* The program: main() and MainLoop() *)

NoAlt ==
    [kind |-> "none"]

\* The parser state the variables hold as an operation begins.
Cur ==
    [LastChar |-> LastChar, input |-> input, IdentifierStr |-> IdentifierStr,
     NumVal |-> NumVal, threw |-> FALSE, CurTok |-> CurTok, errs |-> <<>>,
     toks |-> toks]

\* What the operation began with.
Before ==
    [LastChar |-> LastChar, input |-> input, CurTok |-> CurTok, ntoks |-> Len(toks)]

\* The variables after operation op left state s and returned node; an
\* exception nothing caught ends the process.
Commit(op, s, node, to) ==
    /\ input' = s.input
    /\ LastChar' = s.LastChar
    /\ IdentifierStr' = s.IdentifierStr
    /\ NumVal' = s.NumVal
    /\ CurTok' = s.CurTok
    /\ errs' = s.errs
    /\ toks' = s.toks
    /\ result' = node
    /\ last' = op
    /\ before' = Before
    /\ pc' = IF s.threw THEN "aborted" ELSE to
    /\ UNCHANGED <<input0, given, alt>>

\* A handler has run: r is the state it leaves and the node its parse gave.
Done(op, r) ==
    Commit(op, r.st, r.node, "loop")

\* The program starts with g on standard input.
Start(g) ==
    /\ input0 = g.text
    /\ input = g.text
    /\ given = [kind |-> g.kind, ast |-> g.ast, next |-> g.next]
    /\ LastChar = Ord(" ")
    /\ IdentifierStr = <<>>
    /\ NumVal = [mant |-> 0, frac |-> 0]
    /\ CurTok = 0
    /\ pc = "start"
    /\ last = "none"
    /\ result = Null
    /\ errs = <<>>
    /\ toks = <<>>
    /\ before = [LastChar |-> Ord(" "), input |-> g.text, CurTok |-> 0, ntoks |-> 0]
    /\ alt = NoAlt

Init ==
    \/ \E g \in FragInputs : Start(g)
    \/ \E g \in FlatInputs : Start(g)
    \/ \E g \in TreeInputs : Start(g)
    \/ \E g \in ParenBadInputs : Start(g)
    \/ \E g \in CallInputs : Start(g)
    \/ \E g \in CallBadInputs : Start(g)
    \/ \E g \in ProtoInputs : Start(g)
    \/ \E g \in Examples : Start(g)

\* main(): prime the first token.
Main ==
    /\ pc = "start"
    /\ \E s \in {getNextToken(Cur)} : Commit("main", s, Null, "loop")

\* case tok_eof: return
MainLoopReturn ==
    /\ pc = "loop"
    /\ CurTok = tok_eof
    /\ pc' = "done"
    /\ UNCHANGED <<input0, input, LastChar, IdentifierStr, NumVal, CurTok, last,
                   result, errs, toks, before, given, alt>>

\* case ';': ignore top-level semicolons
SkipSemicolon ==
    /\ pc = "loop"
    /\ CurTok = Ord(";")
    /\ \E s \in {getNextToken(Cur)} : Commit("semi", s, Null, "loop")

\* A handler that does not skip a token on failure.
Handle_NoSkip(r) ==
    r

\* A handler: on failure, skip a token for error recovery.
Handle(r) ==
    Let(r, LAMBDA p :
        IF p.node # Null \/ p.st.threw THEN p ELSE Ret(getNextToken(p.st), Null))

HandleDefinition ==
    /\ pc = "loop"
    /\ CurTok = tok_def
    /\ \E r \in {Handle(ParseDefinition(Cur))} : Done("def", r)

HandleExtern ==
    /\ pc = "loop"
    /\ CurTok = tok_extern
    /\ \E r \in {Handle(ParseExtern(Cur))} : Done("extern", r)

HandleTopLevelExpression ==
    /\ pc = "loop"
    /\ CurTok \notin {tok_eof, Ord(";"), tok_def, tok_extern}
    /\ \E r \in {Handle(ParseTopLevelExpr(Cur))} : Done("top", r)

Next ==
    \/ Main
    \/ MainLoopReturn
    \/ SkipSemicolon
    \/ HandleDefinition
    \/ HandleExtern
    \/ HandleTopLevelExpression

Spec ==
    Init /\ [][Next]_vars

FairSpec ==
    Spec /\ WF_vars(Next)

----------------------------------------------------------------------------
(* The lexer alone: gettok called again and again on one stream, and beside *)
(* it a second run (alt) on the same stream with other leftovers in the     *)
(* statics, or on the stream with white space or a comment inserted or      *)
(* removed at a place between two tokens.                                   *)

MaxLexFrags ==
    3

LexFragments ==
    {Str(<<"d", "e", "f">>), Str(<<"e", "x", "t", "e", "r", "n">>), Str(<<"x">>),
     Str(<<"1">>), Str(<<".">>), Str(<<" ">>), Str(<<"\n">>), Str(<<"#">>),
     Str(<<"+">>)}

LexInputs ==
    {Concat(fs) : fs \in SeqsUpTo(LexFragments, MaxLexFrags)}

\* White space, and complete comments: '#' up to and with the end of the line.
Fillers ==
    {Str(<<" ">>), Str(<<"\n">>), Str(<<"#", "x", "\n">>), Str(<<"#", "\r">>)}

\* A lexer state at the start of text, with what the statics hold.
LexStart(text, c, id, num, tok) ==
    [LastChar |-> c, input |-> text, IdentifierStr |-> id, NumVal |-> num,
     threw |-> FALSE, CurTok |-> tok, errs |-> <<>>, toks |-> <<>>]

Fresh(text) ==
    LexStart(text, Ord(" "), <<>>, [mant |-> 0, frac |-> 0], 0)

\* How many characters of text lie before the lookahead character of s.
Position(text, s) ==
    IF s.LastChar = EOF THEN Len(text)
    ELSE IF Len(text) - Len(s.input) - 1 < 0 THEN 0
    ELSE Len(text) - Len(s.input) - 1

\* The positions at which gettok has returned a token of text.
RECURSIVE TokenEndsFrom(_, _)
TokenEndsFrom(text, s) ==
    Let(gettok(s), LAMBDA g :
        IF g.st.threw THEN {}
        ELSE IF g.tok = tok_eof THEN {Position(text, g.st)}
        ELSE {Position(text, g.st)} \cup TokenEndsFrom(text, g.st))

\* The end of the line of the comment that starts after position p, if any.
LineEnds(text, p) ==
    {k \in (p + 2)..Len(text) : text[k] \in {Ord("\n"), Ord("\r")}}

Min(S) ==
    CHOOSE k \in S : \A j \in S : k <= j

\* The positions between the token that ends at p and the next token: after
\* each white space character and each complete comment that follows p.
RECURSIVE GapFrom(_, _)
GapFrom(text, p) ==
    {p} \cup
    IF p >= Len(text) THEN {}
    ELSE IF isspace(text[p + 1]) THEN GapFrom(text, p + 1)
    ELSE IF text[p + 1] = Ord("#") /\ LineEnds(text, p) # {}
    THEN GapFrom(text, Min(LineEnds(text, p)))
    ELSE {}

\* The positions of text that lie between two adjacent tokens.
Boundaries(text) ==
    UNION {GapFrom(text, p) : p \in {0} \cup TokenEndsFrom(text, Fresh(text))}

InsertAt(text, p, w) ==
    SubSeq(text, 1, p) \o w \o SubSeq(text, p + 1, Len(text))

RemoveAt(text, p, w) ==
    SubSeq(text, 1, p) \o SubSeq(text, p + Len(w) + 1, Len(text))

HasAt(text, p, w) ==
    /\ p + Len(w) <= Len(text)
    /\ SubSeq(text, p + 1, p + Len(w)) = w

\* The second runs of a stream: [kind, at, filler, st].
SameRuns(text) ==
    {[kind |-> "same", at |-> 0, filler |-> <<>>, id0 |-> id,
      st |-> LexStart(text, Ord(" "), id, num, tok)] :
        id \in {<<>>, Str(<<"x">>), Str(<<"d", "e">>)},
        num \in {[mant |-> 0, frac |-> 0], [mant |-> 7, frac |-> 0]},
        tok \in {0, tok_eof}}

InsertRuns(text) ==
    {[kind |-> "insert", at |-> p, filler |-> w, id0 |-> <<>>,
      st |-> Fresh(InsertAt(text, p, w))] :
        p \in Boundaries(text), w \in Fillers}

RemoveRuns(text) ==
    {[kind |-> IF p \in Boundaries(RemoveAt(text, p, w)) THEN "remove" ELSE "join",
      at |-> p, filler |-> w, id0 |-> <<>>,
      st |-> Fresh(RemoveAt(text, p, w))] :
        p \in {q \in Boundaries(text) : \E w \in Fillers : HasAt(text, q, w)},
        w \in {v \in Fillers : \E q \in Boundaries(text) : HasAt(text, q, v)}}

SecondRuns(text) ==
    SameRuns(text) \cup InsertRuns(text) \cup
    {r \in RemoveRuns(text) : HasAt(text, r.at, r.filler)}

LexInit ==
    \E text \in LexInputs : \E r \in SecondRuns(text) :
        /\ input0 = text
        /\ input = text
        /\ given = [kind |-> "lex", ast |-> Null, next |-> 0]
        /\ LastChar = Ord(" ")
        /\ IdentifierStr = <<>>
        /\ NumVal = [mant |-> 0, frac |-> 0]
        /\ CurTok = 0
        /\ pc = "lex"
        /\ last = "none"
        /\ result = Null
        /\ errs = <<>>
        /\ toks = <<>>
        /\ before = [LastChar |-> Ord(" "), input |-> text, CurTok |-> 0, ntoks |-> 0]
        /\ alt = r

\* One more call of gettok in both runs, until the first has returned
\* tok_eof twice in a row and the second has returned it or has thrown.
CallGettok ==
    /\ pc = "lex"
    /\ ~(/\ CurTok = tok_eof
         /\ before.CurTok = tok_eof
         /\ alt.st.CurTok = tok_eof \/ alt.st.threw)
    /\ \E s \in {getNextToken(Cur)} :
          /\ input' = s.input
          /\ LastChar' = s.LastChar
          /\ IdentifierStr' = s.IdentifierStr
          /\ NumVal' = s.NumVal
          /\ CurTok' = s.CurTok
          /\ toks' = s.toks
          /\ pc' = IF s.threw THEN "aborted" ELSE "lex"
    /\ last' = "gettok"
    /\ before' = Before
    /\ alt' = [alt EXCEPT !.st = IF alt.st.threw THEN alt.st ELSE getNextToken(alt.st)]
    /\ UNCHANGED <<input0, given, result, errs>>

LexNext ==
    CallGettok

LexSpec ==
    LexInit /\ [][LexNext]_vars

----------------------------------------------------------------------------
(* Properties *)

Anonymous(body) ==
    FunctionAST(PrototypeAST(<<>>, <<>>), body)

\* The first iteration of MainLoop has run, and it was a top-level expression.
FirstTop ==
    last = "top" /\ before.ntoks = 1

\* The tokens of the stream so far, without the end-of-input tokens.
Lexed ==
    SelectSeq(toks, LAMBDA k : k.tag # tok_eof)

\* The binding strength the language gives each binary operator.
Strength(op) ==
    CASE op = Ord("<") -> 10
      [] op \in {Ord("+"), Ord("-")} -> 20
      [] op \in {Ord("*"), Ord("/")} -> 40

\* primary (operator primary)*, the primaries being numbers and identifiers
Flat(ts) ==
    /\ Len(ts) % 2 = 1
    /\ \A i \in 1..Len(ts) :
          IF i % 2 = 1 THEN ts[i].tag \in {tok_number, tok_identifier}
          ELSE ts[i].tag \in Operators

\* The tokens of a tree of numbers, variables and binary operators, left to right.
RECURSIVE Inorder(_)
Inorder(e) ==
    CASE e.kind = "Number" -> <<[tag |-> tok_number, id |-> <<>>, num |-> e.Val]>>
      [] e.kind = "Variable" -> <<[tag |-> tok_identifier, id |-> e.Name, num |-> NoNum]>>
      [] e.kind = "Binary" ->
            Inorder(e.LHS) \o <<[tag |-> e.Op, id |-> <<>>, num |-> NoNum]>> \o Inorder(e.RHS)
      [] OTHER -> <<>>

\* Every operator binds tighter than the operator above it on its right, and
\* at least as tight as the operator above it on its left.
RECURSIVE Grouped(_)
Grouped(e) ==
    e.kind = "Binary" =>
        /\ e.RHS.kind = "Binary" => Strength(e.RHS.Op) > Strength(e.Op)
        /\ e.LHS.kind = "Binary" => Strength(e.LHS.Op) >= Strength(e.Op)
        /\ Grouped(e.LHS)
        /\ Grouped(e.RHS)

Num(n) ==
    NumberExprAST([mant |-> n, frac |-> 0])

\* C1: an input that is primaries separated by '<', '+', '-', '*', '/' is
\* parsed, by one top-level expression, to the tree whose leaves and operators
\* are the tokens in source order and in which a tighter operator is below a
\* looser neighbour and equal operators group to the left; "1+2*3" is
\* 1+(2*3), "1-2-3" is (1-2)-3 and "1<2+3" is 1<(2+3).
C1_Precedence ==
    /\ (pc = "done" /\ Flat(Lexed)) =>
          /\ FirstTop
          /\ result.kind = "Function"
          /\ Inorder(result.Body) = Lexed
          /\ Grouped(result.Body)
    /\ (pc = "done" /\ input0 = Str(<<"1", "+", "2", "*", "3">>)) =>
          result = Anonymous(BinaryExprAST(Ord("+"), Num(1),
                                 BinaryExprAST(Ord("*"), Num(2), Num(3))))
    /\ (pc = "done" /\ input0 = Str(<<"1", "-", "2", "-", "3">>)) =>
          result = Anonymous(BinaryExprAST(Ord("-"),
                                 BinaryExprAST(Ord("-"), Num(1), Num(2)), Num(3)))
    /\ (pc = "done" /\ input0 = Str(<<"1", "<", "2", "+", "3">>)) =>
          result = Anonymous(BinaryExprAST(Ord("<"), Num(1),
                                 BinaryExprAST(Ord("+"), Num(2), Num(3))))

\* C1 witness: an expression of four primaries whose three operators have
\* three different strengths has been parsed.
C1_Witness ==
    /\ pc = "done"
    /\ Flat(Lexed)
    /\ Len(Lexed) = 7
    /\ Cardinality({Strength(Lexed[i].tag) : i \in {2, 4, 6}}) = 3
    /\ result.kind = "Function"

\* C4: "foo(a1,...,an)" is parsed to the Call of foo with the n argument
\* trees in order (none for "foo()"), with the token after ')' current;
\* "foo(a1,...,an" followed by a token that is neither ')' nor ',' gives the
\* one message "Expected ')' or ',' in argument list" and no node.
C4_Call ==
    /\ (given.kind = "call" /\ FirstTop) =>
          /\ result = Anonymous(given.ast)
          /\ errs = <<>>
          /\ toks[Len(toks)].tag = given.next
    /\ (given.kind = "callbad" /\ FirstTop) =>
          /\ result = Null
          /\ errs = <<"Expected ')' or ',' in argument list">>
    /\ (FirstTop /\ input0 = Str(<<"f", "o", "o", "(", "1", ",", "2", ",", "3", ")">>)) =>
          result = Anonymous(CallExprAST(Foo, <<Num(1), Num(2), Num(3)>>))
    /\ (FirstTop /\ input0 = Str(<<"f", "o", "o", "(", ")">>)) =>
          result = Anonymous(CallExprAST(Foo, <<>>))
    /\ (FirstTop /\ input0 = Str(<<"f", "o", "o", "(", "1", ",", "2">>)) =>
          result = Null /\ errs = <<"Expected ')' or ',' in argument list">>

\* C4 witness: a call with three different arguments, one of them a call,
\* has been parsed.
C4_Witness ==
    /\ given.kind = "call"
    /\ FirstTop
    /\ result.kind = "Function"
    /\ result.Body.kind = "Call"
    /\ Len(result.Body.Args) = 3
    /\ Cardinality({result.Body.Args[i] : i \in 1..3}) = 3
    /\ \E i \in 1..3 : result.Body.Args[i].kind = "Call"

\* C5: the process never aborts, whatever the input.
C5_NeverAborts ==
    pc # "aborted"

\* A call of ParseDefinition, ParseExtern or ParseTopLevelExpr gave a node and
\* no message, or no node and exactly one message.
NodeOrOneMessage ==
    \/ result # Null /\ errs = <<>>
    \/ result = Null /\ Len(errs) = 1

\* C6: every call of a top-level parse entry point succeeds with a node and
\* no diagnostic, or fails with no node and exactly one diagnostic.
C6_NodeOrOneMessage ==
    last \in {"def", "extern", "top"} => NodeOrOneMessage

\* The same of the calls that return: the ones no exception cuts short.
C6_Returned ==
    (last \in {"def", "extern", "top"} /\ pc # "aborted") => NodeOrOneMessage

\* The tokens gettok returned during the last operation.
Pulled ==
    SubSeq(toks, before.ntoks + 1, Len(toks))

\* How many identifier tokens follow the second of ts.
ParamCount(ts) ==
    CHOOSE k \in 0..Len(ts) :
        /\ \A i \in 1..k : 2 + i <= Len(ts) /\ ts[2 + i].tag = tok_identifier
        /\ 3 + k > Len(ts) \/ ts[3 + k].tag # tok_identifier

Failed(msg) ==
    result = Null /\ errs = <<msg>>

\* What C7 says of a prototype whose tokens, from the name on, are ts.
PrototypeOf(ts) ==
    PrototypeAST(ts[1].id, [i \in 1..ParamCount(ts) |-> ts[2 + i].id])

\* C7: after def or extern, a token that is no identifier gives "Expected
\* function name in prototype"; a name not followed by '(' gives "Expected
\* '(' in prototype"; parameter names not followed by ')' give "Expected ')'
\* in prototype"; each time there is no node.  Otherwise the prototype has
\* the name and the parameter names in order, and the token after ')' is
\* the current one as ParsePrototype returns.
C7_Prototype ==
    (last \in {"def", "extern"} /\ Len(Pulled) >= 1) =>
        IF Pulled[1].tag # tok_identifier
        THEN Failed("Expected function name in prototype")
        ELSE Len(Pulled) >= 2 =>
             IF Pulled[2].tag # Ord("(")
             THEN Failed("Expected '(' in prototype")
             ELSE Len(Pulled) >= 3 + ParamCount(Pulled) =>
                  IF Pulled[3 + ParamCount(Pulled)].tag # Ord(")")
                  THEN Failed("Expected ')' in prototype")
                  ELSE Len(Pulled) >= 4 + ParamCount(Pulled) =>
                       /\ last = "extern" =>
                             /\ result = PrototypeOf(Pulled)
                             /\ errs = <<>>
                             /\ Len(Pulled) = 4 + ParamCount(Pulled)
                             /\ CurTok = Pulled[4 + ParamCount(Pulled)].tag
                       /\ last = "def" =>
                             \/ result = Null /\ Len(errs) = 1
                             \/ /\ result.kind = "Function"
                                /\ result.Proto = PrototypeOf(Pulled)
                                /\ errs = <<>>

\* C7 witness: an extern with two different parameters has been parsed.
C7_Witness ==
    /\ last = "extern"
    /\ result.kind = "Prototype"
    /\ Len(result.Args) = 2
    /\ result.Args[1] # result.Args[2]
    /\ CurTok # tok_eof

\* C9: a tree written with every binary operand in parentheses is parsed
\* back to that tree, whatever the operators' strengths, with the token
\* after it current; '(' E followed by a token that is not ')' gives the one
\* message "expected ')'" and no node; "(1+2)*3" is (1+2)*3.
C9_Parentheses ==
    /\ (given.kind = "tree" /\ FirstTop) =>
          /\ result = Anonymous(given.ast)
          /\ errs = <<>>
          /\ toks[Len(toks)].tag = given.next
    /\ (given.kind = "parenbad" /\ FirstTop) =>
          /\ result = Null
          /\ errs = <<"expected ')'">>
    /\ (FirstTop /\ input0 = Str(<<"(", "1", "+", "2", ")", "*", "3">>)) =>
          result = Anonymous(BinaryExprAST(Ord("*"),
                                 BinaryExprAST(Ord("+"), Num(1), Num(2)), Num(3)))

\* C9 witness: a tree in which a looser operator in parentheses is the left
\* operand of a tighter one, and an operator is the right operand of one of
\* its own strength, has been parsed.
C9_Witness ==
    /\ given.kind = "tree"
    /\ FirstTop
    /\ result.kind = "Function"
    /\ result.Body.kind = "Binary"
    /\ result.Body.LHS.kind = "Binary"
    /\ Strength(result.Body.LHS.Op) < Strength(result.Body.Op)

\* The lexer reads text to its end without an exception.
RECURSIVE ConvertsFrom(_)
ConvertsFrom(s) ==
    Let(gettok(s), LAMBDA g :
        IF g.st.threw THEN FALSE
        ELSE IF g.tok = tok_eof THEN TRUE
        ELSE ConvertsFrom(g.st))

\* C10: if every digit/dot run of the input converts, MainLoop returns; an
\* iteration that starts with a token other than tok_eof pulls at least one
\* token; once gettok has returned tok_eof it returns tok_eof ever after.
C10_Terminates ==
    /\ <>(pc \in {"done", "aborted"})
    /\ [](pc = "aborted" => ~ConvertsFrom(Fresh(input0)))
    /\ [][(pc = "loop" /\ CurTok # tok_eof /\ pc' # "aborted")
             => Len(toks') > Len(toks)]_vars
    /\ [](\A i \in 1..(Len(toks) - 1) :
             toks[i].tag = tok_eof => toks[i + 1].tag = tok_eof)

\* C10 witness: MainLoop has returned after an iteration that failed and
\* skipped a token, and gettok was called again after it returned tok_eof.
C10_Witness ==
    /\ pc = "done"
    /\ result = Null
    /\ last \in {"def", "extern", "top"}
    /\ Len(toks) >= 4
    /\ toks[Len(toks) - 1].tag = tok_eof

----------------------------------------------------------------------------
(* Properties of the lexer alone *)

\* The stream the last call of gettok began with, lookahead first.
StreamBefore ==
    <<before.LastChar>> \o before.input

\* How many white space characters the stream starts with.
LeadingSpace(cs) ==
    CHOOSE k \in 0..Len(cs) :
        /\ \A i \in 1..k : isspace(cs[i])
        /\ k = Len(cs) \/ ~isspace(cs[k + 1])

\* The length of the longest run of letters and digits of cs after position k.
RunAfter(cs, k) ==
    CHOOSE n \in 0..(Len(cs) - k) :
        /\ \A i \in 1..n : isalnum(cs[k + i])
        /\ k + n = Len(cs) \/ ~isalnum(cs[k + n + 1])

\* What is left of stream cs after its first m characters, as the lookahead
\* character and stdin.
LeftAfter(cs, m) ==
    IF m < Len(cs) THEN [LastChar |-> cs[m + 1], input |-> SubSeq(cs, m + 2, Len(cs))]
    ELSE [LastChar |-> EOF, input |-> <<>>]

IdentifierAt(cs, k) ==
    SubSeq(cs, k + 1, k + RunAfter(cs, k))

\* C3: when the first character after white space is a letter, gettok takes
\* the longest run of letters and digits from there: it returns tok_def for
\* "def", tok_extern for "extern" and otherwise tok_identifier with
\* IdentifierStr the run; the character after the run is the lookahead, and
\* stdin holds what follows it.
C3_Identifier ==
    (last = "gettok" /\ LeadingSpace(StreamBefore) < Len(StreamBefore)
        /\ isalpha(StreamBefore[LeadingSpace(StreamBefore) + 1])) =>
        /\ pc = "lex"
        /\ CurTok = IF IdentifierAt(StreamBefore, LeadingSpace(StreamBefore))
                           = Str(<<"d", "e", "f">>) THEN tok_def
                    ELSE IF IdentifierAt(StreamBefore, LeadingSpace(StreamBefore))
                           = Str(<<"e", "x", "t", "e", "r", "n">>) THEN tok_extern
                    ELSE tok_identifier
        /\ IdentifierStr = IdentifierAt(StreamBefore, LeadingSpace(StreamBefore))
        /\ [LastChar |-> LastChar, input |-> input] =
              LeftAfter(StreamBefore, LeadingSpace(StreamBefore) +
                            RunAfter(StreamBefore, LeadingSpace(StreamBefore)))

\* C3 witness: after white space gettok has returned an identifier of a
\* letter and a digit, and the lookahead is the character that ended it.
C3_Witness ==
    /\ last = "gettok"
    /\ isspace(StreamBefore[1])
    /\ CurTok = tok_identifier
    /\ Len(IdentifierStr) = 2
    /\ isdigit(IdentifierStr[2])
    /\ LastChar = Ord("+")

\* The two runs have returned the same tokens, with the same payloads, and
\* have ended alike.
SameTokens ==
    /\ toks = alt.st.toks
    /\ (pc = "aborted") = alt.st.threw

\* C2, as claimed: white space or a complete comment inserted or removed at
\* a place between two tokens leaves the tokens as they were.
C2_Transparent ==
    alt.kind \in {"insert", "remove", "join"} => SameTokens

\* C2, amended: inserted there it leaves the tokens as they were, and so
\* does its removal when the place is still between two tokens afterwards.
C2_TransparentInserted ==
    alt.kind \in {"insert", "remove"} => SameTokens

\* C2 witness: both runs are at the end of a stream of three tokens or more,
\* one of them with a comment inserted after the first token.
C2_Witness ==
    /\ alt.kind = "insert"
    /\ alt.filler = Str(<<"#", "x", "\n">>)
    /\ alt.at > 0
    /\ alt.at < Len(input0)
    /\ CurTok = tok_eof
    /\ Len(toks) >= 4
    /\ \E i \in 1..Len(toks) : toks[i].tag = tok_identifier

\* C8: two runs of gettok on the same stream return the same tokens with the
\* same payloads, whatever IdentifierStr, NumVal and CurTok held before, and
\* leave the same lookahead and the same stream.
C8_Deterministic ==
    alt.kind = "same" =>
        /\ SameTokens
        /\ LastChar = alt.st.LastChar
        /\ input = alt.st.input

\* C8 witness: a run that began with an identifier and a number left over
\* in the statics has returned an identifier and a number.
C8_Witness ==
    /\ alt.kind = "same"
    /\ alt.id0 # <<>>
    /\ \E i \in 1..Len(toks) : toks[i].tag = tok_identifier
    /\ \E i \in 1..Len(toks) : toks[i].tag = tok_number
    /\ CurTok = tok_eof

====
